---------------------------- MODULE Spec2Model ----------------------------
(***************************************************************************)
(* A model of main.py, the command-line document agent: the filename       *)
(* sanitizer, the seven file generators, the keyword dispatcher and the    *)
(* interactive loop.                                                       *)
(*                                                                         *)
(* A Python str is a sequence of one-character strings, so that lower(),   *)
(* strip(), split(), the substring test `in` and the regular expressions   *)
(* are computed character by character as Python computes them.            *)
(***************************************************************************)
EXTENDS Integers, Sequences, FiniteSets, TLC

VARIABLES
    pc,             \* position of the process: in ai_agent's loop, or around a direct call
    task,           \* ai_agent: task (the prompt the handlers receive)
    output_folder,  \* ai_agent: output_folder
    response,       \* what model.generate_content returned to the last handler
    raised,         \* an exception is propagating out of the last call
    rng,            \* state of the module-level generator of `random`
    dirs,           \* directories that exist (os.makedirs)
    fs,             \* files on disk: path -> content
    events,         \* what the last handle_task / handler call did, in order
    console,        \* what the last handle_task / handler call printed
    ntasks,         \* ai_agent: answers read at the task prompt so far
    nprompts,       \* ai_agent: answers read at the folder prompt so far
    ncalls,         \* ai_agent: calls of handle_task so far
    san_text,       \* sanitize_filename: the argument of the call
    san_result,     \* sanitize_filename: the value returned
    san_prev        \* the value returned by the call before, when there was one

vars == <<pc, task, output_folder, response, raised, rng, dirs, fs, events,
          console, ntasks, nprompts, ncalls, san_text, san_result, san_prev>>

loopVars == <<task, output_folder, ntasks, nprompts, ncalls>>
callVars == <<response, raised, rng, dirs, fs, events, console>>
sanVars  == <<san_text, san_result, san_prev>>

NoPrev == [has |-> FALSE, val |-> <<>>]

-----------------------------------------------------------------------------
(* Characters and str methods                                              *)

UpperCase == <<"A", "B", "C", "D", "E", "F", "G", "H", "I", "J", "K", "L", "M", "N", "O", "P", "Q", "R", "S", "T", "U", "V", "W", "X", "Y", "Z">>
LowerCase == <<"a", "b", "c", "d", "e", "f", "g", "h", "i", "j", "k", "l", "m", "n", "o", "p", "q", "r", "s", "t", "u", "v", "w", "x", "y", "z">>
Digits    == <<"0", "1", "2", "3", "4", "5", "6", "7", "8", "9">>

Range(s) == {s[i] : i \in 1..Len(s)}

IsUpper(c) == c \in Range(UpperCase)
IsLower(c) == c \in Range(LowerCase)
IsDigit(c) == c \in Range(Digits)

\* str.isspace for the characters of the model
Whitespace == {" ", "\n", "\t"}

IndexIn(c, s) == CHOOSE i \in 1..Len(s) : s[i] = c

LowerChar(c) == IF IsUpper(c) THEN LowerCase[IndexIn(c, UpperCase)] ELSE c

\* str.lower()
Lower(s) == [i \in 1..Len(s) |-> LowerChar(s[i])]

\* needle in haystack : the substring test
Contains(hay, needle) ==
    \E i \in 0..(Len(hay) - Len(needle)) :
        SubSeq(hay, i + 1, i + Len(needle)) = needle

\* haystack[pos:].startswith(needle), pos a 1-based index
StartsAt(hay, pos, needle) ==
    /\ pos >= 1
    /\ pos + Len(needle) - 1 <= Len(hay)
    /\ SubSeq(hay, pos, pos + Len(needle) - 1) = needle

\* str.lstrip(), str.rstrip(), str.strip()
RECURSIVE LStrip(_)
LStrip(s) == IF s # <<>> /\ Head(s) \in Whitespace THEN LStrip(Tail(s)) ELSE s

RECURSIVE RStrip(_)
RStrip(s) ==
    IF s # <<>> /\ s[Len(s)] \in Whitespace THEN RStrip(SubSeq(s, 1, Len(s) - 1)) ELSE s

\* lstrip() for strip()
StripLeftOnly(s) == LStrip(s)

Strip(s) == RStrip(LStrip(s))

\* str.split("\n") : the lines of s (always at least one)
RECURSIVE SplitLines(_)
SplitLines(s) ==
    IF \E i \in 1..Len(s) : s[i] = "\n"
    THEN LET i == CHOOSE k \in 1..Len(s) :
                      s[k] = "\n" /\ \A j \in 1..(k - 1) : s[j] # "\n"
         IN  <<SubSeq(s, 1, i - 1)>> \o SplitLines(SubSeq(s, i + 1, Len(s)))
    ELSE <<s>>

\* c * n
RECURSIVE Repeat(_, _)
Repeat(c, n) == IF n <= 0 THEN <<>> ELSE <<c>> \o Repeat(c, n - 1)

\* every str over the characters of alphabet, of length at most n
RECURSIVE StrUpTo(_, _)
StrUpTo(alphabet, n) ==
    IF n = 0 THEN {<<>>}
    ELSE LET shorter == StrUpTo(alphabet, n - 1)
         IN  shorter \cup {Append(s, c) : s \in shorter, c \in alphabet}

-----------------------------------------------------------------------------
(* sanitize_filename                                                       *)

\* the slice bound of sanitize_filename
MaxFilenameLen == 50

\* the class [a-zA-Z0-9_\-] of the pattern
SafeChar(c) == IsUpper(c) \/ IsLower(c) \/ IsDigit(c) \/ c \in {"_", "-"}

\* re.sub(r'[^a-zA-Z0-9_\-]', '_', text)
SubUnsafe(text) == [i \in 1..Len(text) |-> IF SafeChar(text[i]) THEN text[i] ELSE "_"]

\* text[:n]
Prefix(text, n) == SubSeq(text, 1, IF Len(text) < n THEN Len(text) ELSE n)

\* the substitution without the slice
sanitize_untruncated(text) == SubUnsafe(text)

sanitize_filename(text) == Prefix(SubUnsafe(text), MaxFilenameLen)

-----------------------------------------------------------------------------
(* The world the handlers act on                                           *)

\* model.generate_content(...) : a response whose .text is a str, or an exception
NoResponse   == [status |-> "none", text |-> <<>>]
Failed       == [status |-> "error", text |-> <<>>]
Generated(t) == [status |-> "ok", text |-> t]

\* os.path.join(folder, name)
PathJoin(folder, name) ==
    IF folder # <<>> /\ folder[Len(folder)] = "/"
    THEN folder \o name
    ELSE folder \o <<"/">> \o name

Ev(op, arg) == [op |-> op, arg |-> arg]
File(path, kind, body) == [path |-> path, content |-> [kind |-> kind, body |-> body]]

\* the disk after one file is written: an existing file of that path is replaced
WriteFile(disk, f) ==
    [p \in (DOMAIN disk) \cup {f.path} |-> IF p = f.path THEN f.content ELSE disk[p]]

RECURSIVE WriteAll(_, _)
WriteAll(disk, files) ==
    IF files = <<>> THEN disk ELSE WriteAll(WriteFile(disk, Head(files)), Tail(files))

\* What one call of a handler does: the directory it makes, the response it got,
\* the files it writes in order, what it prints, how many numbers it draws.
Outcome(folder, resp, evs, files, out, draws) ==
    [mkdir |-> {folder}, response |-> resp, raised |-> resp.status = "error",
     events |-> evs, files |-> files, console |-> out, draws |-> draws]

\* the generator of `random`, advanced by one draw
RngNext(s) == (1029 * s + 221) % 131072

RECURSIVE RngAfter(_, _)
RngAfter(s, k) == IF k = 0 THEN s ELSE RngAfter(RngNext(s), k - 1)

\* random.randint(lo, hi) and random.choice(seq), as the k-th draw from state s
RandInt(s, k, lo, hi) == lo + (RngAfter(s, k) % (hi - lo + 1))
RandChoice(s, k, seq) == seq[1 + (RngAfter(s, k) % Len(seq))]

-----------------------------------------------------------------------------
(* save_notes, save_qna, save_doc, save_pdf                                *)

\* save_notes with the file opened before the request is made
save_notes_open_first(prompt, folder, resp) ==
    LET file_path == PathJoin(folder, <<"n", "o", "t", "e", "s", ".", "t", "x", "t">>)
        request   == <<Ev("makedirs", folder), Ev("open", file_path),
                       Ev("generate", <<"W", "r", "i", "t", "e", " ", "s", "t", "r", "u", "c", "t", "u", "r", "e", "d", " ", "s", "t", "u", "d", "y", " ", "n", "o", "t", "e", "s", " ", "o", "n", ":", " ">> \o prompt)>>
    IN  IF resp.status = "error"
        THEN Outcome(folder, resp, request, <<File(file_path, "text", <<>>)>>, <<>>, 0)
        ELSE Outcome(folder, resp, request \o <<Ev("write", file_path)>>,
                     <<File(file_path, "text", Strip(resp.text))>>,
                     <<Ev("saved", file_path)>>, 0)

save_notes(prompt, folder, resp) ==
    LET file_path == PathJoin(folder, <<"n", "o", "t", "e", "s", ".", "t", "x", "t">>)
        request   == <<Ev("makedirs", folder),
                       Ev("generate", <<"W", "r", "i", "t", "e", " ", "s", "t", "r", "u", "c", "t", "u", "r", "e", "d", " ", "s", "t", "u", "d", "y", " ", "n", "o", "t", "e", "s", " ", "o", "n", ":", " ">> \o prompt)>>
    IN  IF resp.status = "error"
        THEN Outcome(folder, resp, request, <<>>, <<>>, 0)
        ELSE Outcome(folder, resp,
                     request \o <<Ev("open", file_path), Ev("write", file_path)>>,
                     <<File(file_path, "text", Strip(resp.text))>>,
                     <<Ev("saved", file_path)>>, 0)

save_qna(prompt, folder, resp) ==
    LET file_path == PathJoin(folder, <<"Q", "n", "A", ".", "t", "x", "t">>)
        request   == <<Ev("makedirs", folder),
                       Ev("generate", <<"G", "e", "n", "e", "r", "a", "t", "e", " ", "1", "0", " ", "q", "u", "e", "s", "t", "i", "o", "n", " ", "a", "n", "d", " ", "a", "n", "s", "w", "e", "r", " ", "p", "a", "i", "r", "s", " ", "o", "n", ":", " ">>
                                      \o prompt \o <<".", " ", "F", "o", "r", "m", "a", "t", " ", "a", "s", ":", "\n", "Q", ":", " ", "<", "q", "u", "e", "s", "t", "i", "o", "n", ">", "\n", "A", ":", " ", "<", "a", "n", "s", "w", "e", "r", ">", "\n">>)>>
    IN  IF resp.status = "error"
        THEN Outcome(folder, resp, request, <<>>, <<>>, 0)
        ELSE Outcome(folder, resp,
                     request \o <<Ev("open", file_path), Ev("write", file_path)>>,
                     <<File(file_path, "text", Strip(resp.text))>>,
                     <<Ev("saved", file_path)>>, 0)

save_doc(prompt, folder, resp) ==
    LET file_path == PathJoin(folder, <<"d", "o", "c", "u", "m", "e", "n", "t", ".", "d", "o", "c", "x">>)
        request   == <<Ev("makedirs", folder),
                       Ev("generate", <<"W", "r", "i", "t", "e", " ", "a", " ", "s", "t", "r", "u", "c", "t", "u", "r", "e", "d", " ", "d", "o", "c", "u", "m", "e", "n", "t", " ", "o", "n", ":", " ">> \o prompt)>>
        doc       == [heading |-> prompt, level |-> 1, paragraphs |-> <<Strip(resp.text)>>]
    IN  IF resp.status = "error"
        THEN Outcome(folder, resp, request, <<>>, <<>>, 0)
        ELSE Outcome(folder, resp, request \o <<Ev("save", file_path)>>,
                     <<File(file_path, "docx", doc)>>,
                     <<Ev("saved", file_path)>>, 0)

\* for para in ...: elements.append(Paragraph(para, Normal)); elements.append(Spacer(1, 12))
RECURSIVE PdfParagraphs(_)
PdfParagraphs(lines) ==
    IF lines = <<>> THEN <<>>
    ELSE <<[flowable |-> "Paragraph", style |-> "Normal", text |-> Head(lines)],
           [flowable |-> "Spacer", style |-> "", text |-> <<>>]>>
         \o PdfParagraphs(Tail(lines))

save_pdf(prompt, folder, resp) ==
    LET file_path == PathJoin(folder, <<"r", "e", "p", "o", "r", "t", ".", "p", "d", "f">>)
        request   == <<Ev("makedirs", folder),
                       Ev("generate", <<"W", "r", "i", "t", "e", " ", "a", " ", "d", "e", "t", "a", "i", "l", "e", "d", " ", "P", "D", "F", " ", "r", "e", "p", "o", "r", "t", " ", "o", "n", ":", " ">> \o prompt)>>
        elements  == <<[flowable |-> "Paragraph", style |-> "Heading1", text |-> prompt],
                       [flowable |-> "Spacer", style |-> "", text |-> <<>>]>>
                     \o PdfParagraphs(SplitLines(Strip(resp.text)))
    IN  IF resp.status = "error"
        THEN Outcome(folder, resp, request, <<>>, <<>>, 0)
        ELSE Outcome(folder, resp, request \o <<Ev("save", file_path)>>,
                     <<File(file_path, "pdf", elements)>>,
                     <<Ev("saved", file_path)>>, 0)

-----------------------------------------------------------------------------
(* save_articles                                                           *)

MinOf(S) == CHOOSE x \in S : \A y \in S : x <= y
MaxOf(S) == CHOOSE x \in S : \A y \in S : x >= y

ArticleOpen  == <<"A", "R", "T", "I", "C", "L", "E", " ", "S", "T", "A", "R", "T", "\n">>
ArticleClose == <<"\n", "A", "R", "T", "I", "C", "L", "E", " ", "E", "N", "D">>

\* The ends of the two lazy groups of
\*   ARTICLE START\n(.*?)\n(.*?)\nARTICLE END      (re.DOTALL)
\* for a match that begins at i: the title ends at the first newline that still
\* has a "\nARTICLE END" after it, the content at the first such closing marker.
ArticleTitleEnds(text, i) ==
    {e1 \in (i + Len(ArticleOpen))..Len(text) :
        /\ text[e1] = "\n"
        /\ \E e2 \in (e1 + 1)..Len(text) : StartsAt(text, e2, ArticleClose)}

ArticleMatchesAt(text, i) ==
    StartsAt(text, i, ArticleOpen) /\ ArticleTitleEnds(text, i) # {}

\* re.findall(r"ARTICLE START\n(.*?)\n(.*?)\nARTICLE END", text, re.DOTALL), from pos on
RECURSIVE FindArticles(_, _)
FindArticles(text, pos) ==
    LET starts == {i \in pos..Len(text) : ArticleMatchesAt(text, i)}
    IN  IF starts = {} THEN <<>>
        ELSE LET i  == MinOf(starts)
                 e1 == MinOf(ArticleTitleEnds(text, i))
                 e2 == MinOf({e \in (e1 + 1)..Len(text) : StartsAt(text, e, ArticleClose)})
             IN  <<[title   |-> SubSeq(text, i + Len(ArticleOpen), e1 - 1),
                    content |-> SubSeq(text, e1 + 1, e2 - 1)]>>
                 \o FindArticles(text, e2 + Len(ArticleClose))

\* str(i) for the i of enumerate(articles, start=1)
DecimalStr(n) ==
    IF n < 10 THEN <<Digits[n + 1]>>
    ELSE <<Digits[(n \div 10) + 1], Digits[(n % 10) + 1]>>

\* sanitize_filename(title.strip()) or f"Article_{i}"
SafeTitle(title, i) ==
    LET safe == sanitize_filename(Strip(title))
    IN  IF safe # <<>> THEN safe ELSE <<"A", "r", "t", "i", "c", "l", "e", "_">> \o DecimalStr(i)

\* f"{title.strip()}\n{'='*len(title.strip())}\n\n{content.strip()}"
ArticleBody(title, content) ==
    Strip(title) \o <<"\n">> \o Repeat("=", Len(Strip(title))) \o <<"\n", "\n">> \o Strip(content)

ArticlePath(folder, article, i) ==
    PathJoin(folder, SafeTitle(article.title, i) \o <<".", "t", "x", "t">>)

\* articles, or [("Generated_Article", text)] when nothing matched
ParsedArticles(text) ==
    LET articles == FindArticles(text, 1)
    IN  IF articles = <<>>
        THEN <<[title |-> <<"G", "e", "n", "e", "r", "a", "t", "e", "d", "_", "A", "r", "t", "i", "c", "l", "e">>, content |-> text]>>
        ELSE articles

save_articles(prompt, folder, resp) ==
    LET request  == <<Ev("makedirs", folder),
                      Ev("generate", <<"W", "r", "i", "t", "e", " ", "m", "u", "l", "t", "i", "p", "l", "e", " ", "d", "e", "t", "a", "i", "l", "e", "d", " ", "a", "r", "t", "i", "c", "l", "e", "s", " ", "b", "a", "s", "e", "d", " ", "o", "n", " ", "t", "h", "i", "s", " ", "p", "r", "o", "m", "p", "t", ":", "\n">>
                                     \o prompt
                                     \o <<"\n", "F", "o", "r", "m", "a", "t", " ", "s", "t", "r", "i", "c", "t", "l", "y", " ", "a", "s", ":", "\n", "A", "R", "T", "I", "C", "L", "E", " ", "S", "T", "A", "R", "T", "\n", "<", "T", "i", "t", "l", "e", ">", "\n", "<", "C", "o", "n", "t", "e", "n", "t", ">", "\n", "A", "R", "T", "I", "C", "L", "E", " ", "E", "N", "D">>)>>
        articles == ParsedArticles(Strip(resp.text))
        n        == Len(articles)
        path(i)  == ArticlePath(folder, articles[i], i)
    IN  IF resp.status = "error"
        THEN Outcome(folder, resp, request, <<>>, <<>>, 0)
        ELSE Outcome(folder, resp,
                     request \o [k \in 1..(2 * n) |->
                                    IF k % 2 = 1 THEN Ev("open", path((k + 1) \div 2))
                                                 ELSE Ev("write", path(k \div 2))],
                     [i \in 1..n |->
                         File(path(i), "text",
                              ArticleBody(articles[i].title, articles[i].content))],
                     [i \in 1..n |-> Ev("saved", path(i))], 0)

-----------------------------------------------------------------------------
(* save_excel                                                              *)

DigitValue(c) == IndexIn(c, Digits) - 1

RECURSIVE IntOf(_)
IntOf(digits) ==
    IF digits = <<>> THEN 0
    ELSE 10 * IntOf(SubSeq(digits, 1, Len(digits) - 1)) + DigitValue(digits[Len(digits)])

\* re.search(r"(\d+)", prompt) : the first maximal run of digits, or no match
HasDigit(prompt) == \E i \in 1..Len(prompt) : IsDigit(prompt[i])

FirstDigitRun(prompt) ==
    LET i == MinOf({k \in 1..Len(prompt) : IsDigit(prompt[k])})
        j == MaxOf({k \in i..Len(prompt) : \A m \in i..k : IsDigit(prompt[m])})
    IN  SubSeq(prompt, i, j)

LastDigitRun(prompt) ==
    LET j == MaxOf({k \in 1..Len(prompt) : IsDigit(prompt[k])})
        i == MinOf({k \in 1..j : \A m \in k..j : IsDigit(prompt[m])})
    IN  SubSeq(prompt, i, j)

DefaultRows == 10

\* the count taken from the last run of digits
RowCountLastRun(prompt) ==
    IF HasDigit(prompt) THEN IntOf(LastDigitRun(prompt)) ELSE DefaultRows

\* n = int(match.group(1)) if match else 10
RowCount(prompt) ==
    IF HasDigit(prompt) THEN IntOf(FirstDigitRun(prompt)) ELSE DefaultRows

Departments == <<"HR", "IT", "Finance", "Marketing">>
Courses     == <<"Math", "CS", "Physics", "Biology">>

SalaryMin == 30000
SalaryMax == 100000
MarksMin  == 40
MarksMax  == 100
ValueMin  == 1
ValueMax  == 500

\* headers, rows and filename of the three branches; s is the generator's state
\* on entry, and row i takes its draws in the order the list comprehension makes them
EmployeeSheet(n, s) ==
    [filename |-> <<"e", "m", "p", "l", "o", "y", "e", "e", "s", ".", "x", "l", "s", "x">>,
     headers  |-> <<"ID", "Name", "Department", "Salary">>,
     rows     |-> [i \in 1..n |-> <<i, <<"Employee_", i>>,
                                    RandChoice(s, 2 * i - 1, Departments),
                                    RandInt(s, 2 * i, SalaryMin, SalaryMax)>>],
     draws    |-> 2 * n]

StudentSheet(n, s) ==
    [filename |-> <<"s", "t", "u", "d", "e", "n", "t", "s", ".", "x", "l", "s", "x">>,
     headers  |-> <<"Roll No", "Name", "Course", "Marks">>,
     rows     |-> [i \in 1..n |-> <<i, <<"Student_", i>>,
                                    RandChoice(s, 2 * i - 1, Courses),
                                    RandInt(s, 2 * i, MarksMin, MarksMax)>>],
     draws    |-> 2 * n]

DataSheet(n, s) ==
    [filename |-> <<"d", "a", "t", "a", ".", "x", "l", "s", "x">>,
     headers  |-> <<"ID", "Name", "Value">>,
     rows     |-> [i \in 1..n |-> <<i, <<"Item_", i>>, RandInt(s, i, ValueMin, ValueMax)>>],
     draws    |-> n]

\* the if / elif / else on prompt.lower()
SheetFor(prompt, s) ==
    IF Contains(Lower(prompt), <<"e", "m", "p", "l", "o", "y", "e", "e">>) THEN EmployeeSheet(RowCount(prompt), s)
    ELSE IF Contains(Lower(prompt), <<"s", "t", "u", "d", "e", "n", "t">>) THEN StudentSheet(RowCount(prompt), s)
    ELSE DataSheet(RowCount(prompt), s)

\* save_excel asking the service for the rows it then does not use
save_excel_generating(prompt, folder, resp) ==
    LET sheet     == SheetFor(prompt, rng)
        file_path == PathJoin(folder, sheet.filename)
    IN  IF resp.status = "error"
        THEN Outcome(folder, resp,
                     <<Ev("makedirs", folder), Ev("generate", prompt)>>, <<>>, <<>>, 0)
        ELSE Outcome(folder, resp,
                     <<Ev("makedirs", folder), Ev("generate", prompt), Ev("save", file_path)>>,
                     <<File(file_path, "xlsx", <<sheet.headers>> \o sheet.rows)>>,
                     <<Ev("saved", file_path)>>, sheet.draws)

\* resp is not used: save_excel calls no generate_content
save_excel(prompt, folder, resp) ==
    LET sheet     == SheetFor(prompt, rng)
        file_path == PathJoin(folder, sheet.filename)
    IN  Outcome(folder, NoResponse,
                <<Ev("makedirs", folder), Ev("save", file_path)>>,
                <<File(file_path, "xlsx", <<sheet.headers>> \o sheet.rows)>>,
                <<Ev("saved", file_path)>>, sheet.draws)

-----------------------------------------------------------------------------
(* save_ppt                                                                *)

SlideWord == <<"S", "L", "I", "D", "E">>

\* first index >= pos whose character is not white space, or not a digit
\* (Len(text) + 1 when there is none): where a greedy \s* or \d* stops
SkipSpaces(text, pos) ==
    MinOf({k \in pos..(Len(text) + 1) : k = Len(text) + 1 \/ text[k] \notin Whitespace})

SkipDigits(text, pos) ==
    MinOf({k \in pos..(Len(text) + 1) : k = Len(text) + 1 \/ ~IsDigit(text[k])})

\* A match of  SLIDE\s*\d+:\s*(.*?)\n([\s\S]*?)(?=SLIDE|\Z)  that begins at i.
\* SlideColon: the index where ":" must stand, after SLIDE, \s* and the digits.
SlideColon(text, i) == SkipDigits(text, SkipSpaces(text, i + Len(SlideWord)))

SlideHeadAt(text, i) ==
    /\ StartsAt(text, i, SlideWord)
    /\ LET d0 == SkipSpaces(text, i + Len(SlideWord))
           d1 == SkipDigits(text, d0)
       IN  d1 > d0 /\ d1 <= Len(text) /\ text[d1] = ":"

\* The newline that ends the title group. The greedy \s* takes all the white space
\* after the colon; the title then runs to the next newline. When no newline
\* follows, \s* gives back characters up to the last newline it had taken, and
\* the title is empty.
SlideTitleSpan(text, i) ==
    LET colon == SlideColon(text, i)
        wsEnd == SkipSpaces(text, colon + 1)
        after == {k \in wsEnd..Len(text) : text[k] = "\n"}
        taken == {k \in (colon + 1)..(wsEnd - 1) : text[k] = "\n"}
    IN  IF after # {} THEN [from |-> wsEnd, nl |-> MinOf(after)]
        ELSE IF taken # {} THEN [from |-> MaxOf(taken), nl |-> MaxOf(taken)]
        ELSE [from |-> 0, nl |-> 0]

SlideMatchesAt(text, i) == SlideHeadAt(text, i) /\ SlideTitleSpan(text, i).nl > 0

\* re.findall(r"SLIDE\s*\d+:\s*(.*?)\n([\s\S]*?)(?=SLIDE|\Z)", text, re.MULTILINE), from pos on
RECURSIVE FindSlides(_, _)
FindSlides(text, pos) ==
    LET starts == {i \in pos..Len(text) : SlideMatchesAt(text, i)}
    IN  IF starts = {} THEN <<>>
        ELSE LET i    == MinOf(starts)
                 span == SlideTitleSpan(text, i)
                 stop == MinOf({k \in (span.nl + 1)..(Len(text) + 1) :
                                   k = Len(text) + 1 \/ StartsAt(text, k, SlideWord)})
             IN  <<[title   |-> SubSeq(text, span.from, span.nl - 1),
                    content |-> SubSeq(text, span.nl + 1, stop - 1)]>>
                 \o FindSlides(text, stop)

\* line.startswith("-"), without strip()
IsBulletUntrimmed(line) == line # <<>> /\ Head(line) = "-"

\* line.strip().startswith("-")
IsBullet(line) == Strip(line) # <<>> /\ Head(Strip(line)) = "-"

\* line.strip()[1:].strip()
BulletText(line) == Strip(Tail(Strip(line)))

\* The placeholder's text frame: its text (empty in a new slide) and the
\* paragraphs added after it.
EmptyBody == [text |-> <<>>, set |-> FALSE, added |-> <<>>]

\* the loop over content.strip().split("\n"), with its flag `first`
RECURSIVE FillBody(_, _, _)
FillBody(lines, body, first) ==
    IF lines = <<>> THEN body
    ELSE IF ~IsBullet(Head(lines)) THEN FillBody(Tail(lines), body, first)
    ELSE IF first
         THEN FillBody(Tail(lines),
                       [text |-> BulletText(Head(lines)), set |-> TRUE, added |-> <<>>],
                       FALSE)
         ELSE FillBody(Tail(lines),
                       [body EXCEPT !.added =
                            Append(@, [text |-> BulletText(Head(lines)), level |-> 0])],
                       FALSE)

ParsedSlide(block) ==
    [title |-> Strip(block.title),
     body  |-> FillBody(SplitLines(Strip(block.content)), EmptyBody, TRUE)]

\* the fallback branch: one slide, the prompt as title, response.text.strip() as body
FallbackSlide(prompt, text) ==
    [title |-> prompt, body |-> [text |-> Strip(text), set |-> TRUE, added |-> <<>>]]

Deck(prompt, text) ==
    LET slides_text == FindSlides(text, 1)
    IN  IF slides_text = <<>>
        THEN <<FallbackSlide(prompt, text)>>
        ELSE [k \in 1..Len(slides_text) |-> ParsedSlide(slides_text[k])]

save_ppt(prompt, folder, resp) ==
    LET file_path == PathJoin(folder, <<"s", "l", "i", "d", "e", "s", ".", "p", "p", "t", "x">>)
        request   == <<Ev("makedirs", folder),
                       Ev("generate", <<"W", "r", "i", "t", "e", " ", "b", "u", "l", "l", "e", "t", " ", "p", "o", "i", "n", "t", "s", " ", "f", "o", "r", " ", "5", " ", "s", "l", "i", "d", "e", "s", " ", "o", "n", ":", " ">> \o prompt
                                      \o <<".", " ", "S", "t", "r", "i", "c", "t", " ", "f", "o", "r", "m", "a", "t", ":", "\n", "S", "L", "I", "D", "E", " ", "<", "n", ">", ":", " ", "<", "T", "i", "t", "l", "e", ">", "\n", "-", " ", "p", "o", "i", "n", "t", " ", "1", "\n", "-", " ", "p", "o", "i", "n", "t", " ", "2", "\n", ".", ".", ".">>)>>
    IN  IF resp.status = "error"
        THEN Outcome(folder, resp, request, <<>>, <<>>, 0)
        ELSE Outcome(folder, resp, request \o <<Ev("save", file_path)>>,
                     <<File(file_path, "pptx", Deck(prompt, resp.text))>>,
                     <<Ev("saved", file_path)>>, 0)

-----------------------------------------------------------------------------
(* handle_task                                                             *)

\* the chain with the Q&A rule tested last
RouteDocFirst(t) ==
    IF Contains(t, <<"a", "r", "t", "i", "c", "l", "e">>) THEN "save_articles"
    ELSE IF Contains(t, <<"n", "o", "t", "e">>) THEN "save_notes"
    ELSE IF Contains(t, <<"e", "x", "c", "e", "l">>) \/ Contains(t, <<"s", "p", "r", "e", "a", "d", "s", "h", "e", "e", "t">>) THEN "save_excel"
    ELSE IF Contains(t, <<"d", "o", "c">>) \/ Contains(t, <<"w", "o", "r", "d">>) THEN "save_doc"
    ELSE IF Contains(t, <<"p", "d", "f">>) THEN "save_pdf"
    ELSE IF Contains(t, <<"p", "p", "t">>) \/ Contains(t, <<"p", "r", "e", "s", "e", "n", "t", "a", "t", "i", "o", "n">>) \/ Contains(t, <<"s", "l", "i", "d", "e", "s">>)
         THEN "save_ppt"
    ELSE IF Contains(t, <<"q">>) /\ Contains(t, <<"a">>) THEN "save_qna"
    ELSE "unsupported"

\* the Q&A rule with `or` for `and`
RouteQnaEither(t) ==
    IF Contains(t, <<"a", "r", "t", "i", "c", "l", "e">>) THEN "save_articles"
    ELSE IF Contains(t, <<"n", "o", "t", "e">>) THEN "save_notes"
    ELSE IF Contains(t, <<"q">>) \/ Contains(t, <<"a">>) THEN "save_qna"
    ELSE IF Contains(t, <<"e", "x", "c", "e", "l">>) \/ Contains(t, <<"s", "p", "r", "e", "a", "d", "s", "h", "e", "e", "t">>) THEN "save_excel"
    ELSE IF Contains(t, <<"d", "o", "c">>) \/ Contains(t, <<"w", "o", "r", "d">>) THEN "save_doc"
    ELSE IF Contains(t, <<"p", "d", "f">>) THEN "save_pdf"
    ELSE IF Contains(t, <<"p", "p", "t">>) \/ Contains(t, <<"p", "r", "e", "s", "e", "n", "t", "a", "t", "i", "o", "n">>) \/ Contains(t, <<"s", "l", "i", "d", "e", "s">>)
         THEN "save_ppt"
    ELSE "unsupported"

\* the if / elif chain on t = task.lower(): the name of the branch taken
Route(t) ==
    IF Contains(t, <<"a", "r", "t", "i", "c", "l", "e">>) THEN "save_articles"
    ELSE IF Contains(t, <<"n", "o", "t", "e">>) THEN "save_notes"
    ELSE IF Contains(t, <<"q">>) /\ Contains(t, <<"a">>) THEN "save_qna"
    ELSE IF Contains(t, <<"e", "x", "c", "e", "l">>) \/ Contains(t, <<"s", "p", "r", "e", "a", "d", "s", "h", "e", "e", "t">>) THEN "save_excel"
    ELSE IF Contains(t, <<"d", "o", "c">>) \/ Contains(t, <<"w", "o", "r", "d">>) THEN "save_doc"
    ELSE IF Contains(t, <<"p", "d", "f">>) THEN "save_pdf"
    ELSE IF Contains(t, <<"p", "p", "t">>) \/ Contains(t, <<"p", "r", "e", "s", "e", "n", "t", "a", "t", "i", "o", "n">>) \/ Contains(t, <<"s", "l", "i", "d", "e", "s">>)
         THEN "save_ppt"
    ELSE "unsupported"

\* the else branch: a message, and nothing else
Unsupported ==
    [mkdir |-> {}, response |-> NoResponse, raised |-> FALSE, events |-> <<>>,
     files |-> <<>>, console |-> <<Ev("unsupported", <<>>)>>, draws |-> 0]

Called(name, o) == [o EXCEPT !.events = <<Ev("call", name)>> \o @]

handle_task(t, folder, resp) ==
    LET branch == Route(Lower(t))
    IN  CASE branch = "save_articles" -> Called(<<"s", "a", "v", "e", "_", "a", "r", "t", "i", "c", "l", "e", "s">>, save_articles(t, folder, resp))
          [] branch = "save_notes"    -> Called(<<"s", "a", "v", "e", "_", "n", "o", "t", "e", "s">>, save_notes(t, folder, resp))
          [] branch = "save_qna"      -> Called(<<"s", "a", "v", "e", "_", "q", "n", "a">>, save_qna(t, folder, resp))
          [] branch = "save_excel"    -> Called(<<"s", "a", "v", "e", "_", "e", "x", "c", "e", "l">>, save_excel(t, folder, resp))
          [] branch = "save_doc"      -> Called(<<"s", "a", "v", "e", "_", "d", "o", "c">>, save_doc(t, folder, resp))
          [] branch = "save_pdf"      -> Called(<<"s", "a", "v", "e", "_", "p", "d", "f">>, save_pdf(t, folder, resp))
          [] branch = "save_ppt"      -> Called(<<"s", "a", "v", "e", "_", "p", "p", "t">>, save_ppt(t, folder, resp))
          [] OTHER                    -> Unsupported

\* the state after a call with outcome o
Apply(o) ==
    /\ response' = o.response
    /\ raised' = o.raised
    /\ rng' = RngAfter(rng, o.draws)
    /\ dirs' = dirs \cup o.mkdir
    /\ fs' = WriteAll(fs, o.files)
    /\ events' = o.events
    /\ console' = o.console

-----------------------------------------------------------------------------
(* ai_agent                                                                *)

\* task == "exit", without lower()
IsExitExact(t) == t = <<"e", "x", "i", "t">>

\* task.lower() == "exit" : the test that leaves the loop
IsExit(t) == Lower(t) = <<"e", "x", "i", "t">>

\* input(...).strip() or "outputs"
FolderOrDefault(answer) == IF Strip(answer) # <<>> THEN Strip(answer) ELSE <<"o", "u", "t", "p", "u", "t", "s">>

\* tasks read in one session
MaxTasks == 2

\* what the user types at the task prompt
TaskInputs ==
    {<<"e", "x", "i", "t">>, <<"E", "X", "I", "T">>, <<"E", "x", "i", "t">>, <<" ", "e", "x", "i", "t">>,
     <<"W", "r", "i", "t", "e", " ", "a", "n", " ", "a", "r", "t", "i", "c", "l", "e", " ", "o", "n", " ", "A", "I">>, <<"N", "o", "t", "e", "s", " ", "f", "o", "r", " ", "a", "n", " ", "A", "r", "t", "i", "c", "l", "e">>,
     <<"W", "r", "i", "t", "e", " ", "s", "t", "u", "d", "y", " ", "n", "o", "t", "e", "s", " ", "o", "n", " ", "t", "h", "e", "r", "m", "o", "d", "y", "n", "a", "m", "i", "c", "s">>, <<"e", "x", "c", "e", "l", " ", "n", "o", "t", "e", "s">>,
     <<"Q", " ", "a", "n", "d", " ", "A", " ", "o", "n", " ", "p", "d", "f">>, <<"M", "a", "k", "e", " ", "a", " ", "s", "p", "r", "e", "a", "d", "s", "h", "e", "e", "t", " ", "q", "u", "i", "c", "k", "l", "y">>, <<"q", "u", "i", "z">>,
     <<"E", "x", "c", "e", "l", " ", "w", "i", "t", "h", " ", "3", " ", "e", "m", "p", "l", "o", "y", "e", "e", "s">>, <<"s", "p", "r", "e", "a", "d", "s", "h", "e", "e", "t">>,
     <<"W", "o", "r", "d", " ", "d", "o", "c", "u", "m", "e", "n", "t">>, <<"t", "h", "e", " ", "P", "D", "F", " ", "d", "o", "c">>,
     <<"P", "D", "F", " ", "o", "n", " ", "r", "u", "s", "t">>, <<"p", "p", "t", " ", "i", "n", " ", "p", "d", "f">>,
     <<"S", "l", "i", "d", "e", "s", " ", "o", "n", " ", "h", "i", "s", "t", "o", "r", "y">>, <<"p", "r", "e", "s", "e", "n", "t", "a", "t", "i", "o", "n">>,
     <<"B", "u", "i", "l", "d", " ", "m", "e", " ", "s", "o", "m", "e", "t", "h", "i", "n", "g">>, <<>>}

\* what the user types at the folder prompt
FolderInputs == {<<>>, <<" ", "o", "u", "t", " ">>}

\* what the service answers
TextResponses ==
    {<<" ", "H", "e", "a", "t", " ", "f", "l", "o", "w", "s", "\n", "f", "r", "o", "m", " ", "h", "o", "t", " ", "t", "o", " ", "c", "o", "l", "d", ".", " ", "\n">>,
     <<"A", "R", "T", "I", "C", "L", "E", " ", "S", "T", "A", "R", "T", "\n", "A", "I", "\n", "M", "a", "c", "h", "i", "n", "e", "s", " ", "t", "h", "a", "t", " ", "l", "e", "a", "r", "n", ".", "\n", "A", "R", "T", "I", "C", "L", "E", " ", "E", "N", "D">>}

Responses == {Generated(t) : t \in TextResponses} \cup {Failed}

InitQuiet ==
    /\ response = NoResponse
    /\ raised = FALSE
    /\ rng = 0
    /\ dirs = {}
    /\ fs = <<>>
    /\ events = <<>>
    /\ console = <<>>
    /\ ntasks = 0
    /\ nprompts = 0
    /\ ncalls = 0

\* sanitize_filename has not been called
InitNoSanitize ==
    /\ san_text = <<>>
    /\ san_result = <<>>
    /\ san_prev = NoPrev

Init ==
    /\ InitQuiet
    /\ InitNoSanitize
    /\ task = <<>>
    /\ output_folder = <<>>
    /\ pc = "read_task"

\* task = input(...); if task.lower() == "exit": break
ReadTask ==
    /\ pc = "read_task"
    /\ ntasks < MaxTasks
    /\ \E answer \in TaskInputs :
          /\ task' = answer
          /\ pc' = IF IsExit(answer) THEN "exited" ELSE "read_folder"
    /\ ntasks' = ntasks + 1
    /\ UNCHANGED <<output_folder, nprompts, ncalls>>
    /\ UNCHANGED callVars
    /\ UNCHANGED sanVars

\* output_folder = input(...).strip() or "outputs"
ReadFolder ==
    /\ pc = "read_folder"
    /\ \E answer \in FolderInputs : output_folder' = FolderOrDefault(answer)
    /\ nprompts' = nprompts + 1
    /\ pc' = "handle"
    /\ UNCHANGED <<task, ntasks, ncalls>>
    /\ UNCHANGED callVars
    /\ UNCHANGED sanVars

\* handle_task(task, output_folder): an exception leaves the loop and the process
HandleTask ==
    /\ pc = "handle"
    /\ \E resp \in Responses : Apply(handle_task(task, output_folder, resp))
    /\ ncalls' = ncalls + 1
    /\ pc' = IF raised' THEN "crashed" ELSE "read_task"
    /\ UNCHANGED <<task, output_folder, ntasks, nprompts>>
    /\ UNCHANGED sanVars

Next == ReadTask \/ ReadFolder \/ HandleTask

Spec == Init /\ [][Next]_vars

-----------------------------------------------------------------------------
(* sanitize_filename called on its own                                     *)

\* a short head over every character class, then one character repeated
MaxHead == 2
MaxPad  == 51

SanAlphabet == {"a", "Z", "7", "_", "-", "/"}

SanInputs ==
    {head \o Repeat(c, k) : head \in StrUpTo(SanAlphabet, MaxHead),
                            c \in SanAlphabet, k \in 0..MaxPad}

InitSanitize ==
    /\ InitQuiet
    /\ task = <<>>
    /\ output_folder = <<>>
    /\ pc = "san_call"
    /\ san_text \in SanInputs
    /\ san_result = <<>>
    /\ san_prev = NoPrev

\* result = sanitize_filename(text)
SanitizeCall ==
    /\ pc = "san_call"
    /\ san_result' = sanitize_filename(san_text)
    /\ pc' = "san_ret"
    /\ UNCHANGED <<san_text, san_prev>>
    /\ UNCHANGED loopVars
    /\ UNCHANGED callVars

\* the caller passes the result back in: sanitize_filename(sanitize_filename(text))
SanitizeAgain ==
    /\ pc = "san_ret"
    /\ ~san_prev.has
    /\ san_prev' = [has |-> TRUE, val |-> san_result]
    /\ san_text' = san_result
    /\ san_result' = <<>>
    /\ pc' = "san_call"
    /\ UNCHANGED loopVars
    /\ UNCHANGED callVars

NextSanitize == SanitizeCall \/ SanitizeAgain

SpecSanitize == InitSanitize /\ [][NextSanitize]_vars

-----------------------------------------------------------------------------
(* The handlers called on their own                                        *)

\* s1 s2 ... sn joined by sep
RECURSIVE Join(_, _)
Join(parts, sep) ==
    IF parts = <<>> THEN <<>>
    ELSE IF Len(parts) = 1 THEN parts[1]
    ELSE parts[1] \o sep \o Join(Tail(parts), sep)

\* every sequence of 1 to n elements of S
RECURSIVE SeqsUpTo(_, _)
SeqsUpTo(S, n) ==
    IF n = 0 THEN {<<>>}
    ELSE LET shorter == SeqsUpTo(S, n - 1)
         IN  shorter \cup {Append(q, x) : q \in shorter, x \in S}

CallFolder == <<"o", "u", "t">>

InitCall ==
    /\ InitQuiet
    /\ InitNoSanitize
    /\ pc = "call"

\* ---- save_excel(prompt, "out") ----

MaxExcelWords == 3
MaxSeed       == 2

ExcelWords == {<<"E", "m", "p", "l", "o", "y", "e", "e">>, <<"s", "t", "u", "d", "e", "n", "t", "s">>, <<"7">>, <<"1", "2">>, <<"x", "3">>, <<"0">>, <<"s", "h", "e", "e", "t">>}

ExcelPrompts == {Join(ws, <<" ">>) : ws \in SeqsUpTo(ExcelWords, MaxExcelWords)}

\* states of the generator on entry: some small ones, and the two from which
\* the second draw is the least and the greatest salary
Seeds == (0..MaxSeed) \cup {32443, 117394}

InitExcel ==
    /\ task \in ExcelPrompts
    /\ output_folder = CallFolder
    /\ response = NoResponse
    /\ raised = FALSE
    /\ rng \in Seeds
    /\ dirs = {}
    /\ fs = <<>>
    /\ events = <<>>
    /\ console = <<>>
    /\ ntasks = 0
    /\ nprompts = 0
    /\ ncalls = 0
    /\ InitNoSanitize
    /\ pc = "call"

CallSaveExcel ==
    /\ pc = "call"
    /\ Apply(save_excel(task, output_folder, NoResponse))
    /\ pc' = "returned"
    /\ UNCHANGED loopVars
    /\ UNCHANGED sanVars

NextExcel == CallSaveExcel

SpecExcel == InitExcel /\ [][NextExcel]_vars

\* ---- save_articles(prompt, "out") ----

ArticlePrompt == <<"a", "r", "t", "i", "c", "l", "e", "s", " ", "o", "n", " ", "A", "I">>

LongTitle == Repeat("T", MaxFilenameLen)

ArticleTitles ==
    {<<"A", "I">>, <<"A", " ", "I">>, <<"A", "_", "I">>, <<>>, <<" ">>, <<"A", "r", "t", "i", "c", "l", "e", "_", "2">>, <<" ", "R", "u", "s", "t", ":", " ", "a", " ", "t", "o", "u", "r">>,
     LongTitle \o <<"A">>, LongTitle \o <<"B">>}

ArticleContents == {<<"M", "a", "c", "h", "i", "n", "e", "s", " ", "l", "e", "a", "r", "n", ".">>, <<" ", "O", "n", "e", ".", "\n", "T", "w", "o", ".", " ">>}

\* one block of the format the instruction asks for
Block(title, content) ==
    ArticleOpen \o title \o <<"\n">> \o content \o ArticleClose \o <<"\n">>

ArticlePieces ==
    {Block(t, c) : t \in ArticleTitles, c \in ArticleContents} \cup {<<"H", "e", "r", "e", " ", "y", "o", "u", " ", "g", "o", ":", "\n">>, <<"A", "R", "T", "I", "C", "L", "E", " ", "S", "T", "A", "R", "T", "\n", "N", "o", " ", "c", "o", "n", "t", "e", "n", "t", "\n", "A", "R", "T", "I", "C", "L", "E", " ", "E", "N", "D", "\n">>}

MaxArticlePieces == 2

ArticleResponses ==
    {Generated(Join(ps, <<>>)) : ps \in SeqsUpTo(ArticlePieces, MaxArticlePieces)}

CallSaveArticles ==
    /\ pc = "call"
    /\ \E resp \in ArticleResponses \cup {Failed} :
          Apply(save_articles(task, output_folder, resp))
    /\ pc' = "returned"
    /\ UNCHANGED loopVars
    /\ UNCHANGED sanVars

InitArticles ==
    /\ InitCall
    /\ task = ArticlePrompt
    /\ output_folder = CallFolder

NextArticles == CallSaveArticles

SpecArticles == InitArticles /\ [][NextArticles]_vars

\* ---- save_ppt(prompt, "out") ----

PptPrompt == <<"s", "l", "i", "d", "e", "s", " ", "o", "n", " ", "A", "I">>

SlidePieces ==
    {<<"S", "L", "I", "D", "E", " ", "1", ":", " ", "I", "n", "t", "r", "o", "\n">>, <<"S", "L", "I", "D", "E", "2", ":", "\n">>, <<"S", "L", "I", "D", "E", " ", "3", ":", " ", "E", "n", "d">>,
     <<"-", " ", "p", "o", "i", "n", "t", "\n">>, <<" ", " ", "-", " ", " ", "t", "w", "o", " ", "w", "o", "r", "d", "s", " ", "\n">>, <<"p", "l", "a", "i", "n", "\n">>, <<"-", "s", "e", "e", " ", "S", "L", "I", "D", "E", " ", "x", "\n">>, <<" ", "\n">>}

MaxSlidePieces == 4

SlideResponses ==
    {Generated(Join(ps, <<>>)) : ps \in SeqsUpTo(SlidePieces, MaxSlidePieces)}

CallSavePpt ==
    /\ pc = "call"
    /\ \E resp \in SlideResponses \cup {Failed} :
          Apply(save_ppt(task, output_folder, resp))
    /\ pc' = "returned"
    /\ UNCHANGED loopVars
    /\ UNCHANGED sanVars

InitPpt ==
    /\ InitCall
    /\ task = PptPrompt
    /\ output_folder = CallFolder

NextPpt == CallSavePpt

SpecPpt == InitPpt /\ [][NextPpt]_vars

-----------------------------------------------------------------------------
(* Properties                                                              *)

\* handle_task has returned, or raised, for the task in `task`
Handled == ncalls > 0 /\ pc \in {"read_task", "crashed"}

\* the names of the handlers the last handle_task call invoked, in order
HandlerCalls == SelectSeq(events, LAMBDA e : e.op = "call")

CountOp(op) == Len(SelectSeq(events, LAMBDA e : e.op = op))

FileOps == {"open", "write", "save"}

\* the dispatcher's rules as the specification lists them: rule k holds of t
RuleHolds(k, t) ==
    CASE k = 1 -> Contains(t, <<"a", "r", "t", "i", "c", "l", "e">>)
      [] k = 2 -> Contains(t, <<"n", "o", "t", "e">>)
      [] k = 3 -> Contains(t, <<"q">>) /\ Contains(t, <<"a">>)
      [] k = 4 -> Contains(t, <<"e", "x", "c", "e", "l">>) \/ Contains(t, <<"s", "p", "r", "e", "a", "d", "s", "h", "e", "e", "t">>)
      [] k = 5 -> Contains(t, <<"d", "o", "c">>) \/ Contains(t, <<"w", "o", "r", "d">>)
      [] k = 6 -> Contains(t, <<"p", "d", "f">>)
      [] k = 7 -> Contains(t, <<"p", "p", "t">>) \/ Contains(t, <<"p", "r", "e", "s", "e", "n", "t", "a", "t", "i", "o", "n">>) \/ Contains(t, <<"s", "l", "i", "d", "e", "s">>)

RuleHandler ==
    <<<<"s", "a", "v", "e", "_", "a", "r", "t", "i", "c", "l", "e", "s">>, <<"s", "a", "v", "e", "_", "n", "o", "t", "e", "s">>, <<"s", "a", "v", "e", "_", "q", "n", "a">>, <<"s", "a", "v", "e", "_", "e", "x", "c", "e", "l">>,
      <<"s", "a", "v", "e", "_", "d", "o", "c">>, <<"s", "a", "v", "e", "_", "p", "d", "f">>, <<"s", "a", "v", "e", "_", "p", "p", "t">>>>

NoRuleHolds(t) == \A k \in 1..7 : ~RuleHolds(k, t)

FirstRule(t) == MinOf({k \in 1..7 : RuleHolds(k, t)})

\* C1: handle_task invokes at most one handler, the handler of the first rule,
\* in the fixed order, that the lower-cased task matches; a task with both "q"
\* and "a" and neither "article" nor "note" goes to the Q&A handler whatever
\* keyword of rules 4-7 it also holds.
C1_FirstMatchingRule ==
    Handled =>
        LET t == Lower(task)
        IN  /\ Len(HandlerCalls) <= 1
            /\ NoRuleHolds(t) => HandlerCalls = <<>>
            /\ ~NoRuleHolds(t) => HandlerCalls = <<Ev("call", RuleHandler[FirstRule(t)])>>
            /\ (RuleHolds(3, t) /\ ~RuleHolds(1, t) /\ ~RuleHolds(2, t))
                   => HandlerCalls = <<Ev("call", <<"s", "a", "v", "e", "_", "q", "n", "a">>)>>

\* a task with "q", "a" and "pdf" has been given to the Q&A handler
C1_Witness ==
    /\ Handled
    /\ RuleHolds(3, Lower(task)) /\ RuleHolds(6, Lower(task))
    /\ HandlerCalls = <<Ev("call", <<"s", "a", "v", "e", "_", "q", "n", "a">>)>>

ExitSpellings ==
    {<<e, x, i, t>> : e \in {"e", "E"}, x \in {"x", "X"}, i \in {"i", "I"}, t \in {"t", "T"}}

\* C2: "exit" in any letter case ends the loop: no folder prompt and no handler
\* call follow it, and nothing more happens. Every other task is followed by one
\* folder prompt and one handle_task call, which is over before the next task is
\* read: at most one task is in progress.
C2_ExitEndsLoop ==
    /\ (ntasks > 0 /\ task \in ExitSpellings) => pc = "exited"
    /\ pc = "exited" =>
          /\ task \in ExitSpellings
          /\ nprompts = ntasks - 1 /\ ncalls = ntasks - 1
          /\ ~ENABLED Next
    /\ pc = "read_task" => nprompts = ntasks /\ ncalls = ntasks
    /\ pc = "read_folder" =>
          /\ task \notin ExitSpellings
          /\ nprompts = ntasks - 1 /\ ncalls = ntasks - 1
    /\ pc = "handle" => nprompts = ntasks /\ ncalls = ntasks - 1
    /\ pc = "crashed" => nprompts = ntasks /\ ncalls = ntasks
    /\ ntasks - ncalls \in {0, 1}

\* one task was handled, then EXIT in capitals ended the loop
C2_Witness ==
    /\ pc = "exited"
    /\ task = <<"E", "X", "I", "T">>
    /\ ntasks = 2 /\ nprompts = 1 /\ ncalls = 1

UnsupportedMessage == <<Ev("unsupported", <<>>)>>

\* C3: when no rule matches, handle_task prints the unsupported-task message
\* and does nothing else: no handler, no request, no folder, no file, no error;
\* the loop is back at the task prompt.
C3_UnsupportedOnlyReports ==
    [][(pc = "handle" /\ NoRuleHolds(Lower(task))) =>
          /\ console' = UnsupportedMessage
          /\ events' = <<>>
          /\ response' = NoResponse
          /\ dirs' = dirs
          /\ fs' = fs
          /\ ~raised'
          /\ pc' = "read_task"]_vars

\* an unsupported task was reported after an earlier task had written a file
C3_Witness ==
    /\ Handled
    /\ ncalls = 2
    /\ NoRuleHolds(Lower(task))
    /\ console = UnsupportedMessage
    /\ fs # <<>>
    /\ pc = "read_task"

FilenameChars == Range(UpperCase) \cup Range(LowerCase) \cup Range(Digits) \cup {"_", "-"}

\* C4: the result of sanitize_filename has at most 50 characters, all of
\* [A-Za-z0-9_-]; it is the argument with every other character replaced by "_",
\* cut to its first 50 characters; an argument of at most 50 characters of that
\* class comes back unchanged; sanitizing the result again changes nothing.
C4_SanitizeTotal ==
    pc = "san_ret" =>
        /\ Len(san_result) <= 50
        /\ \A i \in 1..Len(san_result) : san_result[i] \in FilenameChars
        /\ Len(san_result) = (IF Len(san_text) <= 50 THEN Len(san_text) ELSE 50)
        /\ \A i \in 1..Len(san_result) :
              san_result[i] = (IF san_text[i] \in FilenameChars THEN san_text[i] ELSE "_")
        /\ (Len(san_text) <= 50 /\ \A i \in 1..Len(san_text) : san_text[i] \in FilenameChars)
              => san_result = san_text
        /\ san_prev.has => san_result = san_prev.val

\* an argument longer than 50 with a character outside the class was sanitized,
\* and the result sanitized again
C4_Witness ==
    /\ pc = "san_ret"
    /\ san_prev.has
    /\ Len(san_prev.val) = 50
    /\ \E i \in 1..Len(san_prev.val) : san_prev.val[i] = "_"
    /\ san_result = san_prev.val

\* the value of a run of decimal digits
RECURSIVE Pow10(_)
Pow10(k) == IF k = 0 THEN 1 ELSE 10 * Pow10(k - 1)

RECURSIVE SumTo(_, _)
SumTo(f, k) == IF k = 0 THEN 0 ELSE f[k] + SumTo(f, k - 1)

DecimalValue(run) ==
    SumTo([k \in 1..Len(run) |-> DigitValue(run[k]) * Pow10(Len(run) - k)], Len(run))

\* n is the first integer that occurs in prompt, or 10 when prompt has no digit
FirstIntegerIs(prompt, n) ==
    \/ /\ \A k \in 1..Len(prompt) : prompt[k] \notin Range(Digits)
       /\ n = 10
    \/ \E i \in 1..Len(prompt) : \E j \in i..Len(prompt) :
          /\ \A k \in 1..(i - 1) : prompt[k] \notin Range(Digits)
          /\ \A k \in i..j : prompt[k] \in Range(Digits)
          /\ j = Len(prompt) \/ prompt[j + 1] \notin Range(Digits)
          /\ n = DecimalValue(SubSeq(prompt, i, j))

\* the sheet save_excel wrote: the only file on disk
TheSheet == fs[CHOOSE p \in DOMAIN fs : TRUE].body

\* C5: the sheet has one header row and then n data rows with IDs 1..n in
\* order, n the first integer of the task or 10; "employee" is tested before
\* "student", case-insensitively, and decides header, value ranges and file name.
C5_SheetShape ==
    pc = "returned" =>
        LET t       == Lower(task)
            rows    == TheSheet
            n       == Len(rows) - 1
            written == PathJoin(output_folder,
                           IF Contains(t, <<"e", "m", "p", "l", "o", "y", "e", "e">>) THEN <<"e", "m", "p", "l", "o", "y", "e", "e", "s", ".", "x", "l", "s", "x">>
                           ELSE IF Contains(t, <<"s", "t", "u", "d", "e", "n", "t">>) THEN <<"s", "t", "u", "d", "e", "n", "t", "s", ".", "x", "l", "s", "x">>
                           ELSE <<"d", "a", "t", "a", ".", "x", "l", "s", "x">>)
        IN  /\ DOMAIN fs = {written}
            /\ fs[written].kind = "xlsx"
            /\ Len(rows) >= 1
            /\ FirstIntegerIs(task, n)
            /\ \A i \in 1..n : rows[i + 1][1] = i
            /\ IF Contains(t, <<"e", "m", "p", "l", "o", "y", "e", "e">>)
               THEN /\ rows[1] = <<"ID", "Name", "Department", "Salary">>
                    /\ \A i \in 1..n :
                          /\ rows[i + 1][3] \in {"HR", "IT", "Finance", "Marketing"}
                          /\ rows[i + 1][4] \in 30000..100000
               ELSE IF Contains(t, <<"s", "t", "u", "d", "e", "n", "t">>)
               THEN /\ rows[1] = <<"Roll No", "Name", "Course", "Marks">>
                    /\ \A i \in 1..n : rows[i + 1][4] \in 40..100
               ELSE /\ rows[1] = <<"ID", "Name", "Value">>
                    /\ \A i \in 1..n : rows[i + 1][3] \in 1..500

\* a task naming students, then employees, then 7 got the employee sheet with
\* 7 rows, the first of them with the greatest salary
C5_Witness ==
    /\ pc = "returned"
    /\ task = <<"s", "t", "u", "d", "e", "n", "t", "s", " ", "E", "m", "p", "l", "o", "y", "e", "e", " ", "7">>
    /\ DOMAIN fs = {<<"o", "u", "t", "/", "e", "m", "p", "l", "o", "y", "e", "e", "s", ".", "x", "l", "s", "x">>}
    /\ Len(TheSheet) = 8
    /\ TheSheet[2][4] = 100000

\* the files the last call opened or saved, in order
RECURSIVE PathsOf(_)
PathsOf(evs) ==
    IF evs = <<>> THEN <<>>
    ELSE IF Head(evs).op \in {"open", "save"} THEN <<Head(evs).arg>> \o PathsOf(Tail(evs))
    ELSE PathsOf(Tail(evs))

\* file f begins with the title line and an underline of "=" as long as the title
BeginsWithUnderlinedTitle(body, title) ==
    LET head == title \o <<"\n">> \o Repeat("=", Len(title)) \o <<"\n">>
    IN  StartsAt(body, 1, head)

\* the name the claim gives an article file: the sanitized title, or Article_<n>
ClaimedName(title, i) ==
    IF sanitize_filename(Strip(title)) = <<>> THEN <<"A", "r", "t", "i", "c", "l", "e", "_">> \o DecimalStr(i)
    ELSE sanitize_filename(Strip(title))

\* C6: a response of two well-formed ARTICLE START/END blocks leaves exactly
\* two files, each named from its sanitized title (Article_<n> as fallback) and
\* each beginning with the title line and an underline of "=" of its length.
C6_TwoBlocksTwoFiles ==
    \A t1 \in ArticleTitles, t2 \in ArticleTitles :
    \A c1 \in ArticleContents, c2 \in ArticleContents :
        (pc = "returned" /\ response = Generated(Block(t1, c1) \o Block(t2, c2))) =>
            LET p1 == PathJoin(output_folder, ClaimedName(t1, 1) \o <<".", "t", "x", "t">>)
                p2 == PathJoin(output_folder, ClaimedName(t2, 2) \o <<".", "t", "x", "t">>)
            IN  /\ Cardinality(DOMAIN fs) = 2
                /\ DOMAIN fs = {p1, p2}
                /\ BeginsWithUnderlinedTitle(fs[p1].body, Strip(t1))
                /\ BeginsWithUnderlinedTitle(fs[p2].body, Strip(t2))

\* text is body with white space before and after it, and body has none at its ends
IsTrimOf(body, text) ==
    /\ \E i \in 1..(Len(text) + 1) : \E j \in (i - 1)..Len(text) :
          /\ body = SubSeq(text, i, j)
          /\ \A k \in 1..(i - 1) : text[k] \in Whitespace
          /\ \A k \in (j + 1)..Len(text) : text[k] \in Whitespace
    /\ body = <<>> \/ (body[1] \notin Whitespace /\ body[Len(body)] \notin Whitespace)

NotesDone ==
    /\ Handled
    /\ HandlerCalls = <<Ev("call", <<"s", "a", "v", "e", "_", "n", "o", "t", "e", "s">>)>>
    /\ response.status = "ok"

NotesPath == PathJoin(output_folder, <<"n", "o", "t", "e", "s", ".", "t", "x", "t">>)

\* C7 as stated: a notes task whose request succeeds creates exactly one file,
\* notes.txt in the target folder, holding the generated text verbatim.
C7_NotesVerbatim ==
    NotesDone =>
        /\ PathsOf(events) = <<NotesPath>>
        /\ NotesPath \in DOMAIN fs
        /\ fs[NotesPath].body = response.text

\* C7 amended: the file holds the generated text without its leading and
\* trailing white space.
C7_NotesTrimmed ==
    NotesDone =>
        /\ PathsOf(events) = <<NotesPath>>
        /\ NotesPath \in DOMAIN fs
        /\ fs[NotesPath].kind = "text"
        /\ IsTrimOf(fs[NotesPath].body, response.text)

\* the study-notes task was answered with text that has white space at both ends
C7_Witness ==
    /\ NotesDone
    /\ task = <<"W", "r", "i", "t", "e", " ", "s", "t", "u", "d", "y", " ", "n", "o", "t", "e", "s", " ", "o", "n", " ", "t", "h", "e", "r", "m", "o", "d", "y", "n", "a", "m", "i", "c", "s">>
    /\ response.text # <<>>
    /\ response.text[1] \in Whitespace
    /\ response.text[Len(response.text)] \in Whitespace
    /\ NotesPath \in DOMAIN fs

\* the deck save_ppt wrote
TheDeck == fs[PathJoin(output_folder, <<"s", "l", "i", "d", "e", "s", ".", "p", "p", "t", "x">>)].body

\* the paragraphs a slide's body holds once its text was set (none while it
\* still shows the layout's default)
Paragraphs(body) ==
    IF body.set THEN <<body.text>> \o [k \in 1..Len(body.added) |-> body.added[k].text]
    ELSE <<>>

\* the lines of content that begin with "-", white space around them aside,
\* each without the marker and the white space around what follows it
RECURSIVE BulletsOf(_)
BulletsOf(lines) ==
    IF lines = <<>> THEN <<>>
    ELSE LET line == Strip(Head(lines))
         IN  IF line # <<>> /\ line[1] = "-"
             THEN <<Strip(SubSeq(line, 2, Len(line)))>> \o BulletsOf(Tail(lines))
             ELSE BulletsOf(Tail(lines))

PptDone == pc = "returned" /\ response.status = "ok"

\* k parsed blocks give k slides in order, each titled from its heading, with
\* one paragraph per "-" line, the later ones at outline level 0
SlidesFollowBlocks(blocks) ==
    /\ Len(TheDeck) = Len(blocks)
    /\ \A k \in 1..Len(blocks) :
          /\ TheDeck[k].title = Strip(blocks[k].title)
          /\ Paragraphs(TheDeck[k].body) = BulletsOf(SplitLines(blocks[k].content))
          /\ \A m \in 1..Len(TheDeck[k].body.added) : TheDeck[k].body.added[m].level = 0

\* C8 as stated: no parsed block gives one slide titled with the task whose
\* body is the raw response text; k >= 1 blocks give k slides as above.
C8_DeckRawFallback ==
    PptDone =>
        LET blocks == FindSlides(response.text, 1)
        IN  /\ DOMAIN fs = {PathJoin(output_folder, <<"s", "l", "i", "d", "e", "s", ".", "p", "p", "t", "x">>)}
            /\ blocks = <<>> =>
                  /\ Len(TheDeck) = 1
                  /\ TheDeck[1].title = task
                  /\ TheDeck[1].body.set
                  /\ TheDeck[1].body.added = <<>>
                  /\ TheDeck[1].body.text = response.text
            /\ blocks # <<>> => SlidesFollowBlocks(blocks)

\* C8 amended: the body of the single fallback slide is the response text
\* without its leading and trailing white space.
C8_DeckTrimmedFallback ==
    PptDone =>
        LET blocks == FindSlides(response.text, 1)
        IN  /\ DOMAIN fs = {PathJoin(output_folder, <<"s", "l", "i", "d", "e", "s", ".", "p", "p", "t", "x">>)}
            /\ blocks = <<>> =>
                  /\ Len(TheDeck) = 1
                  /\ TheDeck[1].title = task
                  /\ TheDeck[1].body.set
                  /\ TheDeck[1].body.added = <<>>
                  /\ IsTrimOf(TheDeck[1].body.text, response.text)
            /\ blocks # <<>> => SlidesFollowBlocks(blocks)

\* two blocks were parsed, and the first slide got a second paragraph from an
\* indented "-" line
C8_Witness ==
    /\ PptDone
    /\ Len(FindSlides(response.text, 1)) = 2
    /\ Len(TheDeck) = 2
    /\ TheDeck[1].body.set
    /\ TheDeck[1].body.added = <<[text |-> <<"t", "w", "o", " ", "w", "o", "r", "d", "s">>, level |-> 0]>>

\* position of the first event with operation op (0 when there is none)
FirstOp(evs, op) ==
    IF \E k \in 1..Len(evs) : evs[k].op = op
    THEN MinOf({k \in 1..Len(evs) : evs[k].op = op})
    ELSE 0

NoFileOp(evs) == \A k \in 1..Len(evs) : evs[k].op \notin FileOps

\* C9: a failed generate request is not retried and not caught: the handler
\* has made the folder and writes no file, handle_task and ai_agent let the
\* error through, and the loop takes no further step.
C9_FailureEndsSession ==
    [][/\ pc # "crashed"
       /\ (pc = "handle" /\ response'.status = "error") =>
             /\ raised'
             /\ pc' = "crashed"
             /\ Len(SelectSeq(events', LAMBDA e : e.op = "generate")) = 1
             /\ NoFileOp(events')
             /\ fs' = fs
             /\ output_folder \in dirs'
             /\ console' = <<>>]_vars

\* the second task's request failed after the first task had written a file
C9_Witness ==
    /\ pc = "crashed"
    /\ raised
    /\ response.status = "error"
    /\ ncalls = 2
    /\ fs # <<>>
    /\ output_folder \in dirs
    /\ ~ENABLED Next

GeneratingHandlers ==
    {<<"s", "a", "v", "e", "_", "a", "r", "t", "i", "c", "l", "e", "s">>, <<"s", "a", "v", "e", "_", "n", "o", "t", "e", "s">>, <<"s", "a", "v", "e", "_", "q", "n", "a">>, <<"s", "a", "v", "e", "_", "d", "o", "c">>, <<"s", "a", "v", "e", "_", "p", "d", "f">>, <<"s", "a", "v", "e", "_", "p", "p", "t">>}

\* C10: a handle_task call that reaches the article, notes, Q&A, word, PDF or
\* slide handler issues exactly one generate request, before any file is opened
\* or written; the spreadsheet handler issues none; no call issues two.
C10_OneRequestFirst ==
    Handled =>
        /\ CountOp("generate") <= 1
        /\ \A k \in 1..Len(events) :
              events[k].op \in FileOps =>
                  (CountOp("generate") = 1 => FirstOp(events, "generate") < k)
        /\ HandlerCalls # <<>> =>
              IF HandlerCalls[1].arg \in GeneratingHandlers
              THEN CountOp("generate") = 1
              ELSE /\ HandlerCalls[1].arg = <<"s", "a", "v", "e", "_", "e", "x", "c", "e", "l">>
                   /\ CountOp("generate") = 0
                   /\ response = NoResponse
        /\ HandlerCalls = <<>> => CountOp("generate") = 0

\* the PDF handler made its one request and then saved the report
C10_Witness ==
    /\ Handled
    /\ HandlerCalls = <<Ev("call", <<"s", "a", "v", "e", "_", "p", "d", "f">>)>>
    /\ CountOp("generate") = 1
    /\ FirstOp(events, "save") > FirstOp(events, "generate")
    /\ FirstOp(events, "generate") > 0

=============================================================================
